---- MODULE Spec2Model ----
(***************************************************************************)
(* Model of smartpatcher (src/patcher.js, the nesting-aware version,       *)
(* lines 261-638): the match-block lexer lexMatch, the backtracking        *)
(* matcher findInsertionOffset with its inner function recurse, and the    *)
(* splice performed by main.                                               *)
(*                                                                         *)
(* Text is a sequence of one-character strings.  Offsets into text are     *)
(* 0-based as in the JavaScript source; token indices (si, pi, sj) are     *)
(* 0-based as well.                                                        *)
(***************************************************************************)
EXTENDS Integers, Sequences, FiniteSets, TLC

\* ---------------------------------------------------------------- bounds

\* longest match fragment, in chunks, of the matcher specification SpecFind
MaxMatchChunks == 3
\* most source tokens of SpecFind
MaxSrcTokens == 2
\* longest match fragment, in chunks, of the lexer specification SpecLex
MaxLexChunks == 3
\* longest body of a quoted literal, in chunks, of SpecLex
MaxBodyChunks == 3
\* longest match fragment, in chunks, of the end-to-end specification SpecMain
MaxMainChunks == 3
\* most source tokens of SpecMain
MaxMainTokens == 2
\* the match fragments of SpecSearch have at most this many pieces
MaxSearchChunks == 3
\* the sources of SpecSearch have at most this many tokens
MaxSearchTokens == 2

\* ------------------------------------------------- JavaScript primitives

\* the value of an absent offset (JavaScript null); offsets are >= 0
Null == -1

Min(a, b) == IF a < b THEN a ELSE b
Max(a, b) == IF a > b THEN a ELSE b

\* text[i], 0-based; "" stands for undefined (i outside the text)
CharAt(text, i) == IF i >= 0 /\ i < Len(text) THEN text[i + 1] ELSE ""

\* text.slice(from, to), 0-based, to exclusive, both clamped as slice does
Slice(text, from, to) ==
  SubSeq(text, Min(Max(from, 0), Len(text)) + 1, Min(Max(to, 0), Len(text)))

\* text.startsWith(str, i)
StartsWith(text, str, i) ==
  /\ i >= 0
  /\ i + Len(str) <= Len(text)
  /\ \A k \in 1..Len(str) : text[i + k] = str[k]

\* text.indexOf(str, from): the first index >= from where str occurs, or -1
RECURSIVE IndexOf(_, _, _)
IndexOf(text, str, from) ==
  IF from + Len(str) > Len(text) THEN -1
  ELSE IF StartsWith(text, str, from) THEN from
  ELSE IndexOf(text, str, from + 1)

\* text.lastIndexOf("\n")
RECURSIVE LastIndexOfNl(_, _)
LastIndexOfNl(text, from) ==
  IF from < 0 THEN -1
  ELSE IF CharAt(text, from) = "\n" THEN from
  ELSE LastIndexOfNl(text, from - 1)

\* /\s/
IsSpace(c) == c \in {" ", "\t", "\n", "\r"}

Lower == {"a", "b", "c", "d", "e", "f", "g", "h", "i", "j", "k", "l", "m",
          "n", "o", "p", "q", "r", "s", "t", "u", "v", "w", "x", "y", "z"}
Upper == {"A", "B", "C", "D", "E", "F", "G", "H", "I", "J", "K", "L", "M",
          "N", "O", "P", "Q", "R", "S", "T", "U", "V", "W", "X", "Y", "Z"}
Digit == {"0", "1", "2", "3", "4", "5", "6", "7", "8", "9"}

\* [A-Za-z_]
IsIdStart(c) == c \in Lower \cup Upper \cup {"_"}
\* \w
IsWord(c) == c \in Lower \cup Upper \cup Digit \cup {"_"}
\* \d
IsDigit(c) == c \in Digit

\* the end (exclusive) of the longest run of \w characters starting at i
RECURSIVE WordEnd(_, _)
WordEnd(text, i) ==
  IF i < Len(text) /\ IsWord(CharAt(text, i)) THEN WordEnd(text, i + 1) ELSE i

\* the end (exclusive) of the longest run of \d characters starting at i
RECURSIVE DigitEnd(_, _)
DigitEnd(text, i) ==
  IF i < Len(text) /\ IsDigit(CharAt(text, i)) THEN DigitEnd(text, i + 1) ELSE i

\* the text of a JavaScript string literal, as a sequence of characters
Marker(kind) ==
  CASE kind = "wildcard" -> <<".", ".", ".">>
    [] kind = "inserter" -> <<">", ">", ">">>
    [] kind = "folder" -> <<"<", "<", "<">>

\* ------------------------------------------------------------- lexMatch

Tok(type, text, nestingLevel) ==
  [type |-> type, text |-> text, nestingLevel |-> nestingLevel]

\* ==|!=|<=|>=|\+\+|--|->|&&|\|\||<<|>>
MultiOps ==
  { <<"=", "=">>, <<"!", "=">>, <<"<", "=">>, <<">", "=">>, <<"+", "+">>,
    <<"-", "-">>, <<"-", ">">>, <<"&", "&">>, <<"|", "|">>, <<"<", "<">>,
    <<">", ">">> }

\* [{(}\[\])]
IsBracket(c) == c \in {"{", "(", "}", "[", "]", ")"}

\* The scan of a string literal's body: j is the cursor, start the beginning
\* of the pending fragment, parts the tokens collected so far.  Yields the
\* final j, start and parts of the inner while loop.
RECURSIVE ScanString(_, _, _, _, _, _)
ScanString(text, quote, j, start, parts, nestingLevel) ==
  IF ~(j < Len(text) /\ CharAt(text, j) # quote)
  THEN [j |-> j, start |-> start, parts |-> parts]
  ELSE IF CharAt(text, j) = "\\"
  THEN ScanString(text, quote, j + 2, start, parts, nestingLevel)
  ELSE IF StartsWith(text, Marker("inserter"), j) \/ StartsWith(text, Marker("folder"), j)
  THEN LET before == IF start < j
                     THEN <<Tok("string", Slice(text, start, j), nestingLevel)>>
                     ELSE <<>>
           metaType == IF StartsWith(text, Marker("inserter"), j)
                       THEN "inserter" ELSE "folder"
           meta == Tok(metaType, Slice(text, j, j + 3), nestingLevel)
       IN ScanString(text, quote, j + 3, j + 3,
                     parts \o before \o <<meta>>, nestingLevel)
  ELSE ScanString(text, quote, j + 1, start, parts, nestingLevel)

\* The end of a string literal's body when markers inside it are not looked
\* for: the index of the closing quote, or of the end of the text.
RECURSIVE ScanOpaque(_, _, _)
ScanOpaque(text, quote, j) ==
  IF ~(j < Len(text) /\ CharAt(text, j) # quote) THEN j
  ELSE IF CharAt(text, j) = "\\" THEN ScanOpaque(text, quote, j + 2)
  ELSE ScanOpaque(text, quote, j + 1)

\* a string literal lexed as one opaque token, markers and quotes included
LexStringOpaque(text, i, nestingLevel) ==
  LET j == ScanOpaque(text, CharAt(text, i), i + 1)
  IN [toks |-> <<Tok("string", Slice(text, i, j + 1), nestingLevel)>>, i |-> j + 1]

\* Rule 4 of lexMatch: the tokens of the string literal opening at i and the
\* index where scanning resumes.
LexString(text, i, nestingLevel) ==
  LET quote == CharAt(text, i)
      s == ScanString(text, quote, i + 1, i + 1, <<>>, nestingLevel)
      rest == IF s.start < s.j
              THEN <<Tok("string", Slice(text, s.start, s.j), nestingLevel)>>
              ELSE <<>>
      closed == s.j < Len(text) /\ CharAt(text, s.j) = quote
      closing == IF closed THEN <<Tok("string", <<quote>>, nestingLevel)>> ELSE <<>>
  IN [toks |-> <<Tok("string", <<quote>>, nestingLevel)>> \o s.parts \o rest \o closing,
      i |-> IF closed THEN s.j + 1 ELSE s.j]

\* Rule 9 of lexMatch: the level a bracket token is emitted at
BracketLevel(c, nestingLevel) == IF c = "{" THEN nestingLevel + 1 ELSE nestingLevel

\* Rule 9 of lexMatch: the level after a bracket token was emitted
LevelAfterBracket(c, nestingLevel) ==
  IF c = "{" THEN nestingLevel + 1
  ELSE IF c = "}" THEN nestingLevel - 1
  ELSE nestingLevel

\* One iteration of lexMatch's while loop at index i: the tokens it pushes,
\* the next index and the next nesting level.
LexOne(text, i, nestingLevel) ==
  LET c == CharAt(text, i)
      same(toks, ni) == [toks |-> toks, i |-> ni, nestingLevel |-> nestingLevel]
  IN
  IF IsSpace(c) THEN same(<<>>, i + 1)
  ELSE IF StartsWith(text, Marker("wildcard"), i)
  THEN same(<<Tok("wildcard", Marker("wildcard"), nestingLevel)>>, i + 3)
  ELSE IF StartsWith(text, Marker("inserter"), i)
  THEN same(<<Tok("inserter", Marker("inserter"), nestingLevel)>>, i + 3)
  ELSE IF StartsWith(text, Marker("folder"), i)
  THEN same(<<Tok("folder", Marker("folder"), nestingLevel)>>, i + 3)
  ELSE IF c = "#" /\ IsIdStart(CharAt(text, i + 1))
  THEN same(<<Tok("directive", Slice(text, i, WordEnd(text, i + 1)), nestingLevel)>>,
            WordEnd(text, i + 1))
  ELSE IF c = "\"" \/ c = "'"
  THEN LET s == LexString(text, i, nestingLevel) IN same(s.toks, s.i)
  ELSE IF StartsWith(text, <<"/", "/">>, i)
  THEN LET end == IndexOf(text, <<"\n">>, i + 2)
       IN same(<<Tok("comment", Slice(text, i, IF end < 0 THEN Len(text) ELSE end),
                     nestingLevel)>>,
               IF end < 0 THEN Len(text) ELSE end)
  ELSE IF StartsWith(text, <<"/", "*">>, i)
  THEN LET end == IndexOf(text, <<"*", "/">>, i + 2)
       IN same(<<Tok("comment", Slice(text, i, IF end < 0 THEN Len(text) ELSE end + 2),
                     nestingLevel)>>,
               IF end < 0 THEN Len(text) ELSE end + 2)
  ELSE IF Slice(text, i, i + 2) \in MultiOps
  THEN same(<<Tok("operator", Slice(text, i, i + 2), nestingLevel)>>, i + 2)
  ELSE IF IsIdStart(c)
  THEN same(<<Tok("identifier", Slice(text, i, WordEnd(text, i)), nestingLevel)>>,
            WordEnd(text, i))
  ELSE IF IsDigit(c)
  THEN same(<<Tok("number", Slice(text, i, DigitEnd(text, i)), nestingLevel)>>,
            DigitEnd(text, i))
  ELSE IF IsBracket(c)
  THEN [toks |-> <<Tok("bracket", <<c>>, BracketLevel(c, nestingLevel))>>,
        i |-> i + 1,
        nestingLevel |-> LevelAfterBracket(c, nestingLevel)]
  ELSE same(<<Tok("symbol", <<c>>, nestingLevel)>>, i + 1)

\* lexMatch's while loop from index i on
RECURSIVE LexFrom(_, _, _, _)
LexFrom(text, i, nestingLevel, tokens) ==
  IF ~(i < Len(text)) THEN tokens
  ELSE LET r == LexOne(text, i, nestingLevel)
       IN LexFrom(text, r.i, r.nestingLevel, tokens \o r.toks)

lexMatch(text) == LexFrom(text, 0, 0, <<>>)

\* ---------------------------------------------------------------- state

VARIABLES
  pc,               \* where main stands
  src,              \* the source text read by main
  tree,             \* the leaves of the parse tree of src, in order
  match,            \* the match fragment returned by extractBlocks
  patch,            \* the patch fragment returned by extractBlocks
  isInline,         \* main's isInline
  patt,             \* lexMatch(match)
  srcTokens,        \* getLeafTokens(src)
  insertionOffset,  \* findInsertionOffset's insertionOffset
  deleteOffset,     \* findInsertionOffset's deleteOffset
  stack,            \* the active calls of recurse, outermost first
  ret,              \* the value the last finished call of recurse returned
  found,            \* how findInsertionOffset ended, and the offsets it returned
  beforeBase,       \* main's beforeBase
  insertText,       \* main's insertText
  result,           \* main's result
  written,          \* the texts written to the output file, in order
  md,               \* what the two searches of extractBlocks find in the document
  events            \* what the run did to the outside world, in order

vars == <<pc, src, tree, match, patch, isInline, patt, srcTokens,
          insertionOffset, deleteOffset, stack, ret, found,
          beforeBase, insertText, result, written, md, events>>

\* findInsertionOffset has not ended, has returned offsets, or has thrown
Pending == [status |-> "pending", insertionOffset |-> Null, deleteOffset |-> Null]
Thrown == [status |-> "thrown", insertionOffset |-> Null, deleteOffset |-> Null]

\* ------------------------------------------------------- extractBlocks

\* The document as extractBlocks sees it: whether the search for the match
\* section and the search for the patch section succeed, and the fragment
\* each one captures.
Extracted(m, p) == [hasMatch |-> TRUE, hasPatch |-> TRUE, match |-> m, patch |-> p]

\* the document lacks the match section, the patch section, or both
Lacking(hasM, hasP) ==
  [hasMatch |-> hasM, hasPatch |-> hasP, match |-> <<>>, patch |-> <<>>]

\* extractBlocks going on although the patch section is missing
ExtractOkMatchOnly(d) == d.hasMatch

\* if (!m || !p) throw
ExtractOk(d) == d.hasMatch /\ d.hasPatch

\* ------------------------------------------------------- getLeafTokens

\* A leaf of the parse tree: its text, where it starts in src and the number
\* of compound_statement nodes on the path from the root to it.
Leaf(text, startIndex, blocks) ==
  [text |-> text, startIndex |-> startIndex, blocks |-> blocks]

\* walk: a leaf is pushed with the nesting level counted on the way down
getLeafTokens(t) ==
  [k \in 1..Len(t) |->
     [text |-> t[k].text, startIndex |-> t[k].startIndex,
      nestingLevel |-> t[k].blocks]]

\* -------------------------------------------------- findInsertionOffset

\* sourceTokens[i] and patternTokens[i], 0-based
SrcTok(i) == srcTokens[i + 1]
PatTok(i) == patt[i + 1]

\* (si >= sourceTokens.length) ? srcLength : sourceTokens[si].startIndex
OffsetAt(si) == IF si >= Len(srcTokens) THEN Len(src) ELSE SrcTok(si).startIndex

IsReplaceAll(p) ==
  /\ Len(p) = 3
  /\ p[1].type = "inserter"
  /\ p[2].type = "wildcard"
  /\ p[3].type = "folder"

IsAppend(p) ==
  /\ Len(p) = 2
  /\ p[1].type = "wildcard"
  /\ p[2].type = "inserter"

Offsets(ins, del) ==
  [status |-> "returned", insertionOffset |-> ins, deleteOffset |-> del]

\* a call that stands where its caller stands in the pattern
FrameStuck(si, pi, lvl) == [si |-> si, pi |-> Max(pi - 1, 0), lvl |-> lvl, sj |-> -1]

\* a call recurse(si, pi, currentNestingLevel); sj is the wildcard loop's
\* variable, -1 while the call is not in that loop
Frame(si, pi, lvl) == [si |-> si, pi |-> pi, sj |-> -1, lvl |-> lvl]

Top == stack[Len(stack)]
Pop == SubSeq(stack, 1, Len(stack) - 1)
Push(f) == Append(stack, f)
SetTop(f) == [stack EXCEPT ![Len(stack)] = f]

IsMetaType(type) == type \in {"wildcard", "comment", "folder", "inserter"}

\* the while loop that looks for the next hard token after a wildcard
RECURSIVE NextIdx(_)
NextIdx(idx) ==
  IF idx < Len(patt) /\ IsMetaType(PatTok(idx).type) THEN NextIdx(idx + 1) ELSE idx

\* the wildcard loop without its comparison of nesting levels
LevelSkipsNever(sj, p) == FALSE

\* the three tests of the wildcard loop that skip candidate sj
LevelSkips(sj, p) ==
  sj < Len(srcTokens) /\ SrcTok(sj).nestingLevel # p.nestingLevel
TextSkips(sj, nextTok) ==
  sj < Len(srcTokens) /\ SrcTok(sj).text # nextTok.text
BraceSkips(sj, nextTok) ==
  /\ sj < Len(srcTokens)
  /\ nextTok.text = <<"}">>
  /\ SrcTok(sj).nestingLevel # nextTok.nestingLevel

\* the hard-literal test with the comparison of nesting levels left out
LiteralMatchesTextOnly(si, p) ==
  /\ si < Len(srcTokens)
  /\ SrcTok(si).text = p.text

\* the hard-literal test
LiteralMatches(si, p) ==
  /\ si < Len(srcTokens)
  /\ SrcTok(si).text = p.text
  /\ SrcTok(si).nestingLevel = p.nestingLevel

\* sourceTokens[sj]?.nestingLevel || currentNestingLevel
LevelOr(sj, lvl) ==
  IF sj < Len(srcTokens) /\ SrcTok(sj).nestingLevel # 0
  THEN SrcTok(sj).nestingLevel ELSE lvl

\* the folder branch storing into the inserter's variable
FolderStoresInsertion(si) == [ins |-> OffsetAt(si), del |-> deleteOffset]

\* what the inserter and the folder branch store
InserterStores(si) == [ins |-> OffsetAt(si), del |-> deleteOffset]
FolderStores(si) == [ins |-> insertionOffset, del |-> OffsetAt(si)]

\* whether findInsertionOffset throws once recurse(0, 0, 0) is back
Throws == insertionOffset = Null

mainVars == <<src, tree, match, patch, isInline, patt, srcTokens, md>>
spliceVars == <<beforeBase, insertText, result, written, events>>

FindReplaceAll ==
  /\ pc = "find"
  /\ IsReplaceAll(patt)
  /\ found' = Offsets(0, Len(src))
  /\ pc' = "found"
  /\ UNCHANGED <<mainVars, spliceVars, insertionOffset, deleteOffset, stack, ret>>

FindAppend ==
  /\ pc = "find"
  /\ ~IsReplaceAll(patt)
  /\ IsAppend(patt)
  /\ found' = Offsets(Len(src), Null)
  /\ pc' = "found"
  /\ UNCHANGED <<mainVars, spliceVars, insertionOffset, deleteOffset, stack, ret>>

FindGeneral ==
  /\ pc = "find"
  /\ ~IsReplaceAll(patt)
  /\ ~IsAppend(patt)
  /\ insertionOffset' = Null
  /\ deleteOffset' = Null
  /\ stack' = <<Frame(0, 0, 0)>>
  /\ pc' = "call"
  /\ UNCHANGED <<mainVars, spliceVars, ret, found>>

\* if (pi === patternTokens.length) return insertionOffset
RecurseEnd ==
  /\ pc = "call"
  /\ Top.pi = Len(patt)
  /\ ret' = insertionOffset
  /\ stack' = Pop
  /\ pc' = "ret"
  /\ UNCHANGED <<mainVars, spliceVars, insertionOffset, deleteOffset, found>>

RecurseComment ==
  /\ pc = "call"
  /\ Top.pi < Len(patt)
  /\ PatTok(Top.pi).type = "comment"
  /\ stack' = Push(Frame(Top.si, Top.pi + 1, Top.lvl))
  /\ UNCHANGED <<pc, mainVars, spliceVars, insertionOffset, deleteOffset, ret, found>>

RecurseInserter ==
  /\ pc = "call"
  /\ Top.pi < Len(patt)
  /\ PatTok(Top.pi).type = "inserter"
  /\ insertionOffset' = InserterStores(Top.si).ins
  /\ deleteOffset' = InserterStores(Top.si).del
  /\ stack' = Push(Frame(Top.si, Top.pi + 1, Top.lvl))
  /\ UNCHANGED <<pc, mainVars, spliceVars, ret, found>>

RecurseFolder ==
  /\ pc = "call"
  /\ Top.pi < Len(patt)
  /\ PatTok(Top.pi).type = "folder"
  /\ insertionOffset' = FolderStores(Top.si).ins
  /\ deleteOffset' = FolderStores(Top.si).del
  /\ stack' = Push(Frame(Top.si, Top.pi + 1, Top.lvl))
  /\ UNCHANGED <<pc, mainVars, spliceVars, ret, found>>

\* a wildcard with no hard token after it eats the rest of the source
RecurseWildcardRest ==
  /\ pc = "call"
  /\ Top.pi < Len(patt)
  /\ PatTok(Top.pi).type = "wildcard"
  /\ NextIdx(Top.pi + 1) >= Len(patt)
  /\ stack' = Push(Frame(Len(srcTokens), NextIdx(Top.pi + 1), Top.lvl))
  /\ UNCHANGED <<pc, mainVars, spliceVars, insertionOffset, deleteOffset, ret, found>>

\* for (let sj = si; ...
RecurseWildcardLoop ==
  /\ pc = "call"
  /\ Top.pi < Len(patt)
  /\ PatTok(Top.pi).type = "wildcard"
  /\ NextIdx(Top.pi + 1) < Len(patt)
  /\ stack' = SetTop([Top EXCEPT !.sj = Top.si])
  /\ pc' = "loop"
  /\ UNCHANGED <<mainVars, spliceVars, insertionOffset, deleteOffset, ret, found>>

\* an iteration that ends in one of the three continue statements
WildcardSkip ==
  /\ pc = "loop"
  /\ Top.sj <= Len(srcTokens)
  /\ LET p == PatTok(Top.pi)
         nextTok == PatTok(NextIdx(Top.pi + 1))
     IN \/ LevelSkips(Top.sj, p)
        \/ TextSkips(Top.sj, nextTok)
        \/ BraceSkips(Top.sj, nextTok)
  /\ stack' = SetTop([Top EXCEPT !.sj = Top.sj + 1])
  /\ UNCHANGED <<pc, mainVars, spliceVars, insertionOffset, deleteOffset, ret, found>>

\* an iteration that calls recurse(sj, pi + 1, ...)
WildcardTry ==
  /\ pc = "loop"
  /\ Top.sj <= Len(srcTokens)
  /\ LET p == PatTok(Top.pi)
         nextTok == PatTok(NextIdx(Top.pi + 1))
     IN /\ ~LevelSkips(Top.sj, p)
        /\ ~TextSkips(Top.sj, nextTok)
        /\ ~BraceSkips(Top.sj, nextTok)
  /\ stack' = Push(Frame(Top.sj, Top.pi + 1, LevelOr(Top.sj, Top.lvl)))
  /\ pc' = "call"
  /\ UNCHANGED <<mainVars, spliceVars, insertionOffset, deleteOffset, ret, found>>

\* the loop ran out of candidates: return null
WildcardExhausted ==
  /\ pc = "loop"
  /\ Top.sj > Len(srcTokens)
  /\ ret' = Null
  /\ stack' = Pop
  /\ pc' = "ret"
  /\ UNCHANGED <<mainVars, spliceVars, insertionOffset, deleteOffset, found>>

IsHard(p) == ~IsMetaType(p.type)

RecurseLiteral ==
  /\ pc = "call"
  /\ Top.pi < Len(patt)
  /\ IsHard(PatTok(Top.pi))
  /\ LiteralMatches(Top.si, PatTok(Top.pi))
  /\ stack' = Push(Frame(Top.si + 1, Top.pi + 1, SrcTok(Top.si).nestingLevel))
  /\ UNCHANGED <<pc, mainVars, spliceVars, insertionOffset, deleteOffset, ret, found>>

RecurseMismatch ==
  /\ pc = "call"
  /\ Top.pi < Len(patt)
  /\ IsHard(PatTok(Top.pi))
  /\ ~LiteralMatches(Top.si, PatTok(Top.pi))
  /\ ret' = Null
  /\ stack' = Pop
  /\ pc' = "ret"
  /\ UNCHANGED <<mainVars, spliceVars, insertionOffset, deleteOffset, found>>

\* the caller is in the wildcard loop: if (r != null) return r
InLoop(f) == f.sj >= 0

ReturnFromLoop ==
  /\ pc = "ret"
  /\ stack # <<>>
  /\ InLoop(Top)
  /\ ret # Null
  /\ stack' = Pop
  /\ UNCHANGED <<pc, mainVars, spliceVars, insertionOffset, deleteOffset, ret, found>>

\* the caller is in the wildcard loop and r is null: sj++
ReturnRetry ==
  /\ pc = "ret"
  /\ stack # <<>>
  /\ InLoop(Top)
  /\ ret = Null
  /\ stack' = SetTop([Top EXCEPT !.sj = Top.sj + 1])
  /\ pc' = "loop"
  /\ UNCHANGED <<mainVars, spliceVars, insertionOffset, deleteOffset, ret, found>>

\* the caller returns what its call returned
ReturnThrough ==
  /\ pc = "ret"
  /\ stack # <<>>
  /\ ~InLoop(Top)
  /\ stack' = Pop
  /\ UNCHANGED <<pc, mainVars, spliceVars, insertionOffset, deleteOffset, ret, found>>

\* recurse(0, 0, 0) is back and nothing was recorded: throw
FindThrow ==
  /\ pc = "ret"
  /\ stack = <<>>
  /\ Throws
  /\ found' = Thrown
  /\ pc' = "failed"
  /\ UNCHANGED <<mainVars, spliceVars, insertionOffset, deleteOffset, stack, ret>>

FindReturn ==
  /\ pc = "ret"
  /\ stack = <<>>
  /\ ~Throws
  /\ found' = Offsets(insertionOffset, deleteOffset)
  /\ pc' = "found"
  /\ UNCHANGED <<mainVars, spliceVars, insertionOffset, deleteOffset, stack, ret>>

Find ==
  \/ FindReplaceAll \/ FindAppend \/ FindGeneral
  \/ RecurseEnd \/ RecurseComment \/ RecurseInserter \/ RecurseFolder
  \/ RecurseWildcardRest \/ RecurseWildcardLoop
  \/ WildcardSkip \/ WildcardTry \/ WildcardExhausted
  \/ RecurseLiteral \/ RecurseMismatch
  \/ ReturnFromLoop \/ ReturnRetry \/ ReturnThrough
  \/ FindThrow \/ FindReturn

\* ---------------------------------------------------- inputs of SpecFind

SeqsUpTo(S, n) == UNION {[1..k -> S] : k \in 0..n}

RECURSIVE Flatten(_)
Flatten(ss) == IF ss = <<>> THEN <<>> ELSE Head(ss) \o Flatten(Tail(ss))

\* the pieces a match fragment of SpecFind is made of
FindChunks ==
  { Marker("wildcard"), Marker("inserter"), Marker("folder"),
    <<"a">>, <<"b">>, <<"{">>, <<"}">>, <<"/", "*", "*", "/">> }

\* the source tokens of SpecFind: text and nesting level
FindSrcKinds ==
  { [text |-> <<"a">>, blocks |-> 0], [text |-> <<"a">>, blocks |-> 1],
    [text |-> <<"{">>, blocks |-> 1], [text |-> <<"}">>, blocks |-> 1] }

\* the leaves of a source whose tokens are one character wide and one blank
\* apart
LeavesOf(kinds) ==
  [k \in 1..Len(kinds) |-> Leaf(kinds[k].text, 2 * (k - 1), kinds[k].blocks)]

RECURSIVE JoinBlank(_)
JoinBlank(kinds) ==
  IF kinds = <<>> THEN <<>>
  ELSE IF Len(kinds) = 1 THEN kinds[1].text
  ELSE kinds[1].text \o <<" ">> \o JoinBlank(Tail(kinds))

InitFind ==
  /\ \E chunks \in SeqsUpTo(FindChunks, MaxMatchChunks) :
       /\ match = Flatten(chunks)
       /\ patt = lexMatch(Flatten(chunks))
  /\ \E kinds \in SeqsUpTo(FindSrcKinds, MaxSrcTokens) :
       /\ src = JoinBlank(kinds)
       /\ tree = LeavesOf(kinds)
       /\ srcTokens = getLeafTokens(LeavesOf(kinds))
  /\ pc = "find"
  /\ patch = <<>>
  /\ isInline = TRUE
  /\ insertionOffset = Null
  /\ deleteOffset = Null
  /\ stack = <<>>
  /\ ret = Null
  /\ found = Pending
  /\ beforeBase = <<>>
  /\ insertText = <<>>
  /\ result = <<>>
  /\ written = <<>>
  /\ md = Extracted(match, patch)
  /\ events = <<>>

SpecFind == InitFind /\ [][Find]_vars

\* ------------------------------------------------- claims about the matcher

\* a hard token of the pattern whose text no source token has
HasAbsentLiteral ==
  \E k \in 1..Len(patt) :
    /\ IsHard(patt[k])
    /\ \A j \in 1..Len(srcTokens) : srcTokens[j].text # patt[k].text

\* C1: a pattern with a literal token whose text occurs nowhere in the source
\* tokens makes findInsertionOffset throw: it never returns offsets, whatever
\* meta tokens precede that literal.
C1_AbsentLiteralThrows == HasAbsentLiteral => found.status # "returned"

\* recurse stands at the end of the pattern
AtPatternEnd == pc = "call" /\ Top.pi = Len(patt)

\* the calls below the top one that handle a hard token of the pattern
HardFrames == {k \in 1..(Len(stack) - 1) : IsHard(PatTok(stack[k].pi))}

\* a wildcard is handled by a call strictly between calls k and m
WildcardBetween(k, m) ==
  \E w \in (k + 1)..(m - 1) : PatTok(stack[w].pi).type = "wildcard"

\* C2: when the general matching reaches the end of the pattern, every literal
\* pattern token on the path is paired with a source token of identical text
\* and identical nesting level, the pairs are strictly increasing in source
\* index, and literals not separated by a wildcard are paired with adjacent
\* source tokens.
C2_LiteralsPairedAtSameDepth ==
  AtPatternEnd =>
    /\ \A k \in HardFrames :
         /\ stack[k].si < Len(srcTokens)
         /\ SrcTok(stack[k].si).text = PatTok(stack[k].pi).text
         /\ SrcTok(stack[k].si).nestingLevel = PatTok(stack[k].pi).nestingLevel
    /\ \A k, m \in HardFrames : k < m => stack[k].si < stack[m].si
    /\ \A k, m \in HardFrames :
         (k < m /\ ~WildcardBetween(k, m) /\ ~(\E h \in HardFrames : k < h /\ h < m))
           => stack[m].si = stack[k].si + 1

\* the end of the pattern is reached with a wildcard that skipped a source
\* token of the literal's text at another nesting level
C2_Witness ==
  /\ AtPatternEnd
  /\ \E w \in 1..(Len(stack) - 2) :
       /\ PatTok(stack[w].pi).type = "wildcard"
       /\ InLoop(stack[w])
       /\ w + 1 \in HardFrames
       /\ \E j \in stack[w].si..(stack[w + 1].si - 1) :
            /\ SrcTok(j).text = PatTok(stack[w + 1].pi).text
            /\ SrcTok(j).nestingLevel # PatTok(stack[w + 1].pi).nestingLevel

HasInserter == \E k \in 1..Len(patt) : patt[k].type = "inserter"

\* C9: a pattern without an Inserter token makes findInsertionOffset throw,
\* also when every literal of the pattern matches the source.
C9_MissingInserterThrows == ~HasInserter => found.status # "returned"

\* findInsertionOffset has thrown for a pattern of literals only, each equal
\* in text and nesting level to the source token at its place
C9_Witness ==
  /\ pc = "failed"
  /\ found.status = "thrown"
  /\ Len(patt) > 0
  /\ Len(patt) <= Len(srcTokens)
  /\ \A k \in 1..Len(patt) : IsHard(patt[k]) /\ LiteralMatches(k - 1, patt[k])

\* ------------------------------------------------------------------ main

\* the regular expression \r?\n at index i: the length of its match, or 0
LineBreakAt(text, i) ==
  IF CharAt(text, i) = "\r" /\ CharAt(text, i + 1) = "\n" THEN 2
  ELSE IF CharAt(text, i) = "\n" THEN 1
  ELSE 0

\* text.split(/\r?\n/)
RECURSIVE SplitFrom(_, _, _, _)
SplitFrom(text, i, lineStart, lines) ==
  IF i >= Len(text) THEN Append(lines, Slice(text, lineStart, Len(text)))
  ELSE IF LineBreakAt(text, i) > 0
  THEN SplitFrom(text, i + LineBreakAt(text, i), i + LineBreakAt(text, i),
                 Append(lines, Slice(text, lineStart, i)))
  ELSE SplitFrom(text, i + 1, lineStart, lines)

SplitLines(text) == SplitFrom(text, 0, 0, <<>>)

\* lines.join('\n')
RECURSIVE JoinNl(_)
JoinNl(lines) ==
  IF lines = <<>> THEN <<>>
  ELSE IF Len(lines) = 1 THEN lines[1]
  ELSE lines[1] \o <<"\n">> \o JoinNl(Tail(lines))

\* line.includes(str)
Includes(line, str) == IndexOf(line, str, 0) >= 0

\* the length of the leading run of whitespace: text.match(/^\s*/)[0].length
RECURSIVE LeadingSpaces(_, _)
LeadingSpaces(text, i) ==
  IF i < Len(text) /\ IsSpace(CharAt(text, i)) THEN LeadingSpaces(text, i + 1) ELSE i

\* the index after the last character that is not whitespace
RECURSIVE TrimEnd(_, _)
TrimEnd(text, i) ==
  IF i > 0 /\ IsSpace(CharAt(text, i - 1)) THEN TrimEnd(text, i - 1) ELSE i

\* text.trim()
Trim(text) ==
  LET from == LeadingSpaces(text, 0)
  IN IF from >= Len(text) THEN <<>> ELSE Slice(text, from, TrimEnd(text, Len(text)))

\* /^[\s]*$/.test(text)
AllSpace(text) == \A k \in 1..Len(text) : IsSpace(text[k])

\* text.endsWith('\n')
EndsWithNl(text) == Len(text) > 0 /\ text[Len(text)] = "\n"

\* matchLines.find(line => line.includes('>>>')) || ''
InserterLine(text) ==
  LET lines == SplitLines(text)
      hits == {k \in 1..Len(lines) : Includes(lines[k], Marker("inserter"))}
  IN IF hits = {} THEN <<>>
     ELSE lines[CHOOSE k \in hits : \A h \in hits : k <= h]

\* the style test with the line compared as it stands, not trimmed
StyleNoTrim(text) == InserterLine(text) # Marker("inserter")

\* const isInline = inserterLine.trim() !== '>>>'
StyleIsInline(text) == Trim(InserterLine(text)) # Marker("inserter")

\* beforeBase: beforeRaw without its placeholder line and, for an inline
\* insertion, without the line break it then ends in
KeptBefore(beforeRaw, inline) ==
  LET lastNlIdx == LastIndexOfNl(beforeRaw, Len(beforeRaw) - 1)
      afterLastNl == Slice(beforeRaw, lastNlIdx + 1, Len(beforeRaw))
      base == IF AllSpace(afterLastNl)
              THEN Slice(beforeRaw, 0, lastNlIdx + 1)
              ELSE beforeRaw
  IN IF inline /\ EndsWithNl(base) THEN Slice(base, 0, Len(base) - 1) ELSE base

\* indent: the leading whitespace of the insertion point's line
IndentOf(beforeRaw) ==
  LET lastNlIdx == LastIndexOfNl(beforeRaw, Len(beforeRaw) - 1)
      afterLastNl == Slice(beforeRaw, lastNlIdx + 1, Len(beforeRaw))
  IN Slice(afterLastNl, 0, LeadingSpaces(afterLastNl, 0))

\* patchedLines
PatchedLines(patchText, indent, inline) ==
  IF inline THEN Trim(patchText)
  ELSE LET lines == SplitLines(patchText)
       IN JoinNl([k \in 1..Len(lines) |-> indent \o lines[k]])

\* no line break is ever put before the replacement
NeedsNlNever(offset, base, inline) == FALSE

\* needsNl
NeedsNl(offset, base, inline) == ~inline /\ offset # 0 /\ ~EndsWithNl(base)

\* the tail of the source starting at the folder's offset whenever there is
\* one
TailStartAtDelete(offset, del) == IF del # Null THEN del ELSE offset

\* the tail resuming at the insertion point whatever deleteOffset is
TailStartNoDelete(offset, del) == offset

\* tailStart
TailStart(offset, del) == IF del # Null /\ del > offset THEN del ELSE offset

\* lines 542-547 of main: the style, the pattern and the source tokens
MainPrepare ==
  /\ pc = "main"
  /\ isInline' = StyleIsInline(match)
  /\ patt' = lexMatch(match)
  /\ srcTokens' = getLeafTokens(tree)
  /\ pc' = "find"
  /\ UNCHANGED <<src, tree, match, patch, md, spliceVars,
                 insertionOffset, deleteOffset, stack, ret, found>>

\* lines 551-587 of main: the splice
MainSplice ==
  /\ pc = "found"
  /\ LET offset == found.insertionOffset
         beforeRaw == Slice(src, 0, offset)
         base == KeptBefore(beforeRaw, isInline)
         text == (IF NeedsNl(offset, base, isInline) THEN <<"\n">> ELSE <<>>)
                   \o PatchedLines(patch, IndentOf(beforeRaw), isInline)
     IN /\ beforeBase' = base
        /\ insertText' = text
        /\ result' = base \o text
                       \o Slice(src, TailStart(offset, found.deleteOffset), Len(src))
  /\ pc' = "spliced"
  /\ UNCHANGED <<mainVars, written, events,
                 insertionOffset, deleteOffset, stack, ret, found>>

\* lines 588-590 of main: the directory is made, the output file is written
\* and the offset is printed
MainWrite ==
  /\ pc = "spliced"
  /\ written' = Append(written, result)
  /\ events' = events \o <<"mkdir", "write", "log">>
  /\ pc' = "done"
  /\ UNCHANGED <<mainVars, beforeBase, insertText, result,
                 insertionOffset, deleteOffset, stack, ret, found>>

\* main().catch: the error is printed and the process exits with status 1
MainCatch ==
  /\ pc = "failed"
  /\ events' = events \o <<"error", "exit1">>
  /\ pc' = "exit1"
  /\ UNCHANGED <<mainVars, beforeBase, insertText, result, written,
                 insertionOffset, deleteOffset, stack, ret, found>>

Main == MainPrepare \/ Find \/ MainSplice \/ MainWrite \/ MainCatch

\* the marker alone on a line of its own, indented by one blank
OwnLineInserter == <<"\n", " ">> \o Marker("inserter") \o <<"\n">>

\* the pieces a match fragment of SpecMain is made of
MainChunks ==
  { Marker("inserter"), OwnLineInserter,
    Marker("folder"), Marker("wildcard"), <<"a">>, <<"/", "*", "*", "/">> }

\* the whitespace before the first token, between two tokens and after the
\* last token of a source of SpecMain
LeadGaps == { <<>>, <<" ">> }
InnerGaps == { <<" ">>, <<"\n">>, <<"\n", " ">>, <<"\n", " ", "\n">> }
TailGaps == { <<>>, <<"\n">> }

\* the patch fragments of SpecMain
MainPatches == { <<"a">>, <<" ", "x", "\n", "y", "\n">> }

\* the text of the k-th token of a source of SpecMain
TextOfToken(k) == IF k % 2 = 1 THEN <<"a">> ELSE <<"b">>

\* the gaps before each token of a source: the leading one, then the inner
GapsOf(lead, inner) == <<lead>> \o inner

\* where the k-th token starts: after k gaps and k - 1 one-character tokens
RECURSIVE StartOfToken(_, _)
StartOfToken(gaps, k) ==
  IF k = 0 THEN -1 ELSE StartOfToken(gaps, k - 1) + 1 + Len(gaps[k])

RECURSIVE TextOfLayout(_, _)
TextOfLayout(gaps, k) ==
  IF k > Len(gaps) THEN <<>>
  ELSE gaps[k] \o TextOfToken(k) \o TextOfLayout(gaps, k + 1)

LeavesOfLayout(gaps) ==
  [k \in 1..Len(gaps) |-> Leaf(TextOfToken(k), StartOfToken(gaps, k), 0)]

InitMain ==
  /\ \/ \E lead \in LeadGaps, tail \in TailGaps :
          \E inner \in SeqsUpTo(InnerGaps, MaxMainTokens - 1) :
            /\ src = TextOfLayout(GapsOf(lead, inner), 1) \o tail
            /\ tree = LeavesOfLayout(GapsOf(lead, inner))
     \/ \E tail \in TailGaps :
          /\ src = tail
          /\ tree = <<>>
  /\ match \in {Flatten(chunks) : chunks \in SeqsUpTo(MainChunks, MaxMainChunks)}
  /\ patch \in MainPatches
  /\ pc = "main"
  /\ patt = <<>>
  /\ srcTokens = <<>>
  /\ isInline = TRUE
  /\ insertionOffset = Null
  /\ deleteOffset = Null
  /\ stack = <<>>
  /\ ret = Null
  /\ found = Pending
  /\ beforeBase = <<>>
  /\ insertText = <<>>
  /\ result = <<>>
  /\ written = <<>>
  /\ md = Extracted(match, patch)
  /\ events = <<>>

SpecMain == InitMain /\ [][Main]_vars

\* ------------------------------------------- a whole run of the program

\* line 540 of main: extractBlocks returns the two fragments
MainExtract ==
  /\ pc = "start"
  /\ ExtractOk(md)
  /\ match' = md.match
  /\ patch' = md.patch
  /\ pc' = "main"
  /\ UNCHANGED <<src, tree, isInline, patt, srcTokens, md, spliceVars,
                 insertionOffset, deleteOffset, stack, ret, found>>

\* line 540 of main: extractBlocks throws
MainExtractThrows ==
  /\ pc = "start"
  /\ ~ExtractOk(md)
  /\ pc' = "failed"
  /\ UNCHANGED <<mainVars, spliceVars, insertionOffset, deleteOffset, stack, ret, found>>

\* line 588 of main: mkdirSync throws
MainMkdirThrows ==
  /\ pc = "spliced"
  /\ events' = Append(events, "mkdir failed")
  /\ pc' = "failed"
  /\ UNCHANGED <<mainVars, beforeBase, insertText, result, written,
                 insertionOffset, deleteOffset, stack, ret, found>>

\* line 589 of main: writeFileSync throws, before or after it truncated the
\* output file
MainWriteThrows ==
  /\ pc = "spliced"
  /\ events' = events \o <<"mkdir", "write failed">>
  /\ written' \in {written, Append(written, <<>>)}
  /\ pc' = "failed"
  /\ UNCHANGED <<mainVars, beforeBase, insertText, result,
                 insertionOffset, deleteOffset, stack, ret, found>>

Run ==
  \/ MainExtract \/ MainExtractThrows
  \/ Main
  \/ MainMkdirThrows \/ MainWriteThrows

\* the sources of a run: up to MaxMainTokens tokens, one blank apart
RunLayouts ==
  { GapsOf(<<>>, inner) : inner \in SeqsUpTo({<<" ">>}, MaxMainTokens - 1) }

InitRun ==
  /\ \/ \E gaps \in RunLayouts :
          /\ src = TextOfLayout(gaps, 1)
          /\ tree = LeavesOfLayout(gaps)
     \/ /\ src = <<>>
        /\ tree = <<>>
  /\ \/ \E chunks \in SeqsUpTo(MainChunks, MaxMainChunks) :
          md = Extracted(Flatten(chunks), <<"a">>)
     \/ \E hasM, hasP \in BOOLEAN :
          /\ ~(hasM /\ hasP)
          /\ md = Lacking(hasM, hasP)
  /\ pc = "start"
  /\ match = <<>>
  /\ patch = <<>>
  /\ patt = <<>>
  /\ srcTokens = <<>>
  /\ isInline = TRUE
  /\ insertionOffset = Null
  /\ deleteOffset = Null
  /\ stack = <<>>
  /\ ret = Null
  /\ found = Pending
  /\ beforeBase = <<>>
  /\ insertText = <<>>
  /\ result = <<>>
  /\ written = <<>>
  /\ events = <<>>

SpecRun == InitRun /\ [][Run]_vars

\* ------------------------------------------------ claims about a whole run

\* the events of the run that touch the output path
Touches(e) == e \in {"mkdir", "mkdir failed", "write", "write failed"}

\* extractBlocks or findInsertionOffset has thrown
SearchThrew == ~(md.hasMatch /\ md.hasPatch) \/ found.status = "thrown"

\* where an event stands in the events of the run, 0 if it is not there
PositionOf(e) ==
  IF \E k \in 1..Len(events) : events[k] = e
  THEN CHOOSE k \in 1..Len(events) : events[k] = e
  ELSE 0

\* the output path is touched only once both functions have returned, a run
\* in which one of them threw touches and writes nothing and ends with the
\* error printed and exit status 1, and the offset is printed only after the
\* write
C11_Safe ==
  /\ (\E k \in 1..Len(events) : Touches(events[k]))
       => (md.hasMatch /\ md.hasPatch /\ found.status = "returned")
  /\ written # <<>>
       => (md.hasMatch /\ md.hasPatch /\ found.status = "returned")
  /\ SearchThrew
       => /\ written = <<>>
          /\ pc \in {"start", "failed", "exit1"}
          /\ events = (IF pc = "exit1" THEN <<"error", "exit1">> ELSE <<>>)
  /\ PositionOf("log") > 0
       => /\ PositionOf("write") > 0
          /\ PositionOf("write") < PositionOf("log")
          /\ written = <<result>>

\* C11: the output directory is made and the output file written only after
\* extractBlocks and findInsertionOffset have both returned without throwing;
\* if either throws nothing is written, the error is printed and the process
\* exits with status 1; the byte offset is printed only after a successful
\* write.
C11_NoOutputOnFailure ==
  /\ []C11_Safe
  /\ [][(SearchThrew /\ pc = "failed")
          => /\ pc' = "exit1"
             /\ events' = <<"error", "exit1">>
             /\ written' = <<>>]_vars

\* findInsertionOffset threw and the process has exited with status 1
C11_Witness ==
  /\ pc = "exit1"
  /\ found.status = "thrown"
  /\ events = <<"error", "exit1">>
  /\ written = <<>>

\* ------------------------------------------------------ the lexer alone

\* lexMatch applied to the match fragment
Lex ==
  /\ pc = "lex"
  /\ patt' = lexMatch(match)
  /\ pc' = "lexed"
  /\ UNCHANGED <<src, tree, match, patch, isInline, srcTokens, md, spliceVars,
                 insertionOffset, deleteOffset, stack, ret, found>>

\* the pieces a match fragment of SpecLex is made of
LexChunks ==
  { <<" ">>, <<"\n">>, Marker("wildcard"), Marker("inserter"), Marker("folder"),
    <<"#">>, <<"a">>, <<"1">>, <<"\"">>, <<"'">>, <<"\\">>, <<"/", "/">>,
    <<"/", "*">>, <<"*", "/">>, <<">", ">">>, <<"{">>, <<"}">>, <<"(">>, <<";">> }

\* the pieces the body of a quoted literal of SpecLex is made of
BodyChunks ==
  { <<"a", "b", "c">>, <<"d", "e", "f">>, Marker("inserter"), Marker("folder") }

Quotes == { "\"", "'" }

\* the literal with this body, closed or left open
Quoted(quote, body, closed) ==
  <<quote>> \o Flatten(body) \o (IF closed THEN <<quote>> ELSE <<>>)

QuotedLiterals ==
  { Quoted(q, body, closed) :
      q \in Quotes, body \in SeqsUpTo(BodyChunks, MaxBodyChunks), closed \in BOOLEAN }

InitLex ==
  /\ match \in {Flatten(chunks) : chunks \in SeqsUpTo(LexChunks, MaxLexChunks)}
                 \cup QuotedLiterals
  /\ pc = "lex"
  /\ patt = <<>>
  /\ src = <<>>
  /\ tree = <<>>
  /\ srcTokens = <<>>
  /\ patch = <<>>
  /\ isInline = TRUE
  /\ insertionOffset = Null
  /\ deleteOffset = Null
  /\ stack = <<>>
  /\ ret = Null
  /\ found = Pending
  /\ beforeBase = <<>>
  /\ insertText = <<>>
  /\ result = <<>>
  /\ written = <<>>
  /\ md = Extracted(match, patch)
  /\ events = <<>>

SpecLex == InitLex /\ [][Lex]_vars

\* -------------------------------------------------- claims about the lexer

\* "abc>>>def", quotes included
AbcInsDef == Quoted("\"", << <<"a", "b", "c">>, Marker("inserter"), <<"d", "e", "f">> >>, TRUE)

Types(toks) == [k \in 1..Len(toks) |-> toks[k].type]
Texts(toks) == [k \in 1..Len(toks) |-> toks[k].text]

\* C7 as stated: the match fragment "abc>>>def" is lexed into exactly three
\* tokens, a string fragment abc, an Inserter and a string fragment def.
C7_ThreeTokens ==
  (pc = "lexed" /\ match = AbcInsDef) =>
    /\ Types(patt) = <<"string", "inserter", "string">>
    /\ Texts(patt) = << <<"a", "b", "c">>, Marker("inserter"), <<"d", "e", "f">> >>

\* The tokens a literal's body stands for, read off its chunks: a marker
\* chunk is a marker token, a maximal run of other chunks one string fragment.
RECURSIVE BodyTokens(_, _)
BodyTokens(body, pending) ==
  LET flush == IF pending = <<>> THEN <<>> ELSE <<Tok("string", pending, 0)>>
  IN IF body = <<>> THEN flush
     ELSE IF Head(body) = Marker("inserter")
     THEN flush \o <<Tok("inserter", Head(body), 0)>> \o BodyTokens(Tail(body), <<>>)
     ELSE IF Head(body) = Marker("folder")
     THEN flush \o <<Tok("folder", Head(body), 0)>> \o BodyTokens(Tail(body), <<>>)
     ELSE BodyTokens(Tail(body), pending \o Head(body))

QuoteTok(q) == Tok("string", <<q>>, 0)

\* C7 as amended: "abc>>>def" is lexed into five tokens, the opening quote,
\* abc, an Inserter, def and the closing quote; in general a quoted literal
\* without backslashes is lexed into its opening quote, one marker token for
\* each marker in it, one string fragment for each non-empty stretch between
\* them, and its closing quote when it is closed: never one opaque token.
C7_QuotesFragmentsAndMarkers ==
  pc = "lexed" =>
    /\ match = AbcInsDef =>
         /\ Types(patt) = <<"string", "string", "inserter", "string", "string">>
         /\ Texts(patt) = << <<"\"">>, <<"a", "b", "c">>, Marker("inserter"),
                             <<"d", "e", "f">>, <<"\"">> >>
    /\ \A q \in Quotes \cap {CharAt(match, 0)}, closed \in BOOLEAN :
         \A body \in SeqsUpTo(BodyChunks, MaxBodyChunks) :
           match = Quoted(q, body, closed) =>
             patt = <<QuoteTok(q)>> \o BodyTokens(body, <<>>)
                      \o (IF closed THEN <<QuoteTok(q)>> ELSE <<>>)

\* "abc>>>def" has been lexed
C7_Witness ==
  /\ pc = "lexed"
  /\ match = AbcInsDef
  /\ Len(patt) = 5
  /\ patt[3].type = "inserter"

IsBrace(t) == t.type = "bracket" /\ t.text \in { <<"{">>, <<"}">> }

\* C10: every token lexMatch emits has nestingLevel >= 0, and the levels of
\* two consecutive tokens differ only when one of them is a { or } bracket.
C10_LevelsNonNegative ==
  pc = "lexed" =>
    /\ \A k \in 1..Len(patt) : patt[k].nestingLevel >= 0
    /\ \A k \in 1..(Len(patt) - 1) :
         patt[k].nestingLevel # patt[k + 1].nestingLevel
           => (IsBrace(patt[k]) \/ IsBrace(patt[k + 1]))

\* the second half of C10 alone, which the code keeps
C10_LevelsChangeAtBraces ==
  pc = "lexed" =>
    \A k \in 1..(Len(patt) - 1) :
      patt[k].nestingLevel # patt[k + 1].nestingLevel
        => (IsBrace(patt[k]) \/ IsBrace(patt[k + 1]))

\* ------------------------------------------------- claims about the splice

\* main has computed its result
Spliced == pc \in {"spliced", "done"}

\* the general search of findInsertionOffset did not run
NoSearch == stack = <<>> /\ insertionOffset = Null /\ deleteOffset = Null /\ ret = Null

\* C3 as stated: for the pattern [Inserter, Wildcard, Folder]
\* findInsertionOffset returns {0, sourceLength} without the general search,
\* and for a non-empty source the result is exactly the patch text: in block
\* style the patch lines rejoined with line breaks, in inline style the patch.
C3_ResultIsPatchText ==
  (Spliced /\ IsReplaceAll(patt) /\ src # <<>>) =>
    /\ found = Offsets(0, Len(src))
    /\ NoSearch
    /\ result = IF isInline THEN patch ELSE JoinNl(SplitLines(patch))

\* C3 as amended: as above, but in inline style the result is the patch text
\* trimmed of leading and trailing whitespace.
C3_ResultIsReplacement ==
  (Spliced /\ IsReplaceAll(patt) /\ src # <<>>) =>
    /\ found = Offsets(0, Len(src))
    /\ NoSearch
    /\ result = IF isInline THEN Trim(patch) ELSE JoinNl(SplitLines(patch))

\* a whole file with tokens in it was replaced and written, in block style
C3_Witness ==
  /\ pc = "done"
  /\ IsReplaceAll(patt)
  /\ ~isInline
  /\ Len(srcTokens) > 0
  /\ written = <<result>>
  /\ result # src

\* the last line of the source
LastLine(text) == SplitLines(text)[Len(SplitLines(text))]

\* the source's last line is not whitespace-only (so the source does not end
\* in a line break either)
LastLineHasText == ~AllSpace(LastLine(src))

\* C4 as stated: for the pattern [Wildcard, Inserter] findInsertionOffset
\* returns {sourceLength, null}, and for a source whose last line is not
\* whitespace-only the result is source ++ trimmed patch in inline style and
\* source ++ line break ++ patch in block style.
C4_AppendsPatch ==
  (Spliced /\ IsAppend(patt)) =>
    /\ found = Offsets(Len(src), Null)
    /\ LastLineHasText =>
         result = IF isInline THEN src \o Trim(patch)
                  ELSE src \o <<"\n">> \o patch

\* the leading whitespace of a line
LeadingWhitespace(line) == Slice(line, 0, LeadingSpaces(line, 0))

\* the lines of a text, each after the given indentation, rejoined
Indented(text, indent) ==
  JoinNl([k \in 1..Len(SplitLines(text)) |-> indent \o SplitLines(text)[k]])

\* C4 as amended: as above, but in block style the result is source ++ line
\* break ++ the patch lines, each prefixed with the leading whitespace of the
\* source's last line and rejoined with line breaks.
C4_AppendsIndentedPatch ==
  (Spliced /\ IsAppend(patt)) =>
    /\ found = Offsets(Len(src), Null)
    /\ LastLineHasText =>
         result = IF isInline THEN src \o Trim(patch)
                  ELSE src \o <<"\n">>
                         \o Indented(patch, LeadingWhitespace(LastLine(src)))

\* a patch was appended in block style to a source whose last line is indented
C4_Witness ==
  /\ pc = "done"
  /\ IsAppend(patt)
  /\ ~isInline
  /\ LastLineHasText
  /\ LeadingWhitespace(LastLine(src)) # <<>>
  /\ written = <<result>>

\* where the k-th source token ends
EndOfToken(k) == srcTokens[k].startIndex + Len(srcTokens[k].text)

\* the source text from the start of the i-th to the end of the j-th token
TokenSlice(i, j) == Slice(src, srcTokens[i].startIndex, EndOfToken(j))

\* the match fragment reproduces the slice, an Inserter before it and a Folder
\* after it, and the patch is the slice
IsRoundTrip(slice) ==
  /\ patch = slice
  /\ \/ match = Marker("inserter") \o slice \o Marker("folder")
     \/ match = OwnLineInserter \o slice \o Marker("folder")

\* C5: patching a source with a match fragment that reproduces a slice of
\* whole tokens between an Inserter and a Folder, and with that slice as the
\* patch, yields the source itself.
C5_RoundTripIsIdentity ==
  Spliced =>
    \A i, j \in 1..Len(srcTokens) :
      (i <= j /\ IsRoundTrip(TokenSlice(i, j))) => result = src

\* the first index of the line an offset is on
LineStart(text, offset) == LastIndexOfNl(text, offset - 1) + 1

\* text[from .. to) is not empty and holds blanks only
BlankRun(text, from, to) ==
  /\ from < to
  /\ \A k \in (from + 1)..to : text[k] = " "

\* the start of the blank line immediately before the offset: the offset's own
\* line up to it, or the complete line that ends just before it; -1 if none
BlankLineBefore(text, offset) ==
  IF BlankRun(text, LineStart(text, offset), offset)
  THEN LineStart(text, offset)
  ELSE IF /\ offset > 0
          /\ CharAt(text, offset - 1) = "\n"
          /\ BlankRun(text, LineStart(text, offset - 1), offset - 1)
  THEN LineStart(text, offset - 1)
  ELSE -1

\* C6: in block style, a line of blanks immediately before the insertion point
\* (the insertion point's own line, or a complete line ending just before it)
\* is not kept: the text kept before the replacement ends right after the line
\* break that precedes the blank line.
C6_BlankLineRemoved ==
  (Spliced /\ ~isInline /\ BlankLineBefore(src, found.insertionOffset) >= 0) =>
    beforeBase = Slice(src, 0, BlankLineBefore(src, found.insertionOffset))

\* the first index at which the marker >>> occurs, or -1
FirstInserter(text) == IndexOf(text, Marker("inserter"), 0)

\* the index of the end of the line that index i is on
RECURSIVE LineEnd(_, _)
LineEnd(text, i) ==
  IF i >= Len(text) \/ CharAt(text, i) = "\n" THEN i ELSE LineEnd(text, i + 1)

\* the first >>> of the text stands alone on its line, whitespace apart
MarkerAlone(text) ==
  LET at == FirstInserter(text)
  IN /\ at >= 0
     /\ \A k \in (LineStart(text, at) + 1)..at : IsSpace(text[k])
     /\ \A k \in (at + 4)..LineEnd(text, at + 3) : IsSpace(text[k])

\* the leading whitespace of the line the offset is on, up to the offset
IndentAt(text, offset) ==
  LeadingWhitespace(Slice(text, LineStart(text, offset), offset))

\* C8: the insertion is block style exactly when the first line of the match
\* fragment that contains >>> is, trimmed, exactly >>>; in inline style the
\* replacement is the trimmed patch, with no indentation and no line break
\* before it; in block style every patch line is prefixed with the leading
\* whitespace of the insertion point's line.
C8_StyleAndReplacement ==
  /\ pc # "main" => (isInline <=> ~MarkerAlone(match))
  /\ Spliced =>
       IF isInline THEN insertText = Trim(patch)
       ELSE \E nl \in { <<>>, <<"\n">> } :
              insertText = nl \o Indented(patch, IndentAt(src, found.insertionOffset))

\* a patch of several lines was inserted in block style, indented, at a place
\* found by the general search
C8_Witness ==
  /\ pc = "done"
  /\ ~isInline
  /\ ~IsAppend(patt)
  /\ ~IsReplaceAll(patt)
  /\ IndentAt(src, found.insertionOffset) # <<>>
  /\ Len(SplitLines(patch)) > 1
  /\ Len(insertText) > Len(patch)

\* ------------------------------------------ more claims about the matcher

\* the wildcard loop stands at candidate sj of the wildcard at Top.pi
AtCandidate == pc = "loop" /\ Top.sj < Len(srcTokens)

\* the next non-meta pattern token of the wildcard whose loop is running
TargetOfTop == PatTok(NextIdx(Top.pi + 1))

\* the pattern is a wildcard directly followed by { and then an inserter
WildcardBraceInserter ==
  /\ Len(patt) = 3
  /\ patt[1].type = "wildcard"
  /\ patt[2].text = <<"{">>
  /\ patt[3].type = "inserter"

\* C12: at a wildcard whose next non-meta pattern token is T, every source
\* position at or after the cursor whose token has T's text and T's declared
\* nesting depth is tried; in particular a pattern in which a wildcard is
\* directly followed by { matches a source in which that { exists at T's
\* depth.
C12_CandidatesAtTargetDepthTried ==
  /\ (/\ AtCandidate
      /\ SrcTok(Top.sj).text = TargetOfTop.text
      /\ SrcTok(Top.sj).nestingLevel = TargetOfTop.nestingLevel)
       => ~LevelSkips(Top.sj, PatTok(Top.pi))
  /\ (/\ found.status # "pending"
      /\ WildcardBraceInserter
      /\ \E j \in 1..Len(srcTokens) :
           /\ srcTokens[j].text = patt[2].text
           /\ srcTokens[j].nestingLevel = patt[2].nestingLevel)
       => found.status = "returned"

\* the wildcard at index w of the pattern (counted from 1) is followed by
\* meta tokens only
TrailingFrom(w) ==
  /\ patt[w].type = "wildcard"
  /\ \A k \in (w + 1)..Len(patt) : IsMetaType(patt[k].type)

\* a token of the given type stands after index w of the pattern
HasAfter(w, type) == \E k \in (w + 1)..Len(patt) : patt[k].type = type

\* the pattern is one literal, a wildcard and an inserter
LiteralWildcardInserter ==
  /\ Len(patt) = 3
  /\ IsHard(patt[1])
  /\ patt[2].type = "wildcard"
  /\ patt[3].type = "inserter"

\* C13: a wildcard followed only by meta tokens consumes the rest of the
\* source and every inserter or folder after it is still processed with the
\* cursor at the end, recording the length of the source; a pattern of a
\* literal, a wildcard and an inserter whose literal matches the source makes
\* findInsertionOffset return insertionOffset = sourceLength.
C13_TrailingMarkersRecordEnd ==
  /\ AtPatternEnd =>
       \A w \in 1..Len(patt) :
         TrailingFrom(w) =>
           /\ HasAfter(w, "inserter") => insertionOffset = Len(src)
           /\ HasAfter(w, "folder") => deleteOffset = Len(src)
  /\ (/\ found.status # "pending"
      /\ LiteralWildcardInserter
      /\ LiteralMatches(0, patt[1]))
       => found = Offsets(Len(src), Null)

\* ------------------------------------------- more claims about the splice

\* where the claim lets the tail of the source resume
ResumeAt ==
  IF found.deleteOffset # Null /\ found.deleteOffset > found.insertionOffset
  THEN found.deleteOffset
  ELSE found.insertionOffset

\* C14: the output is before ++ replacement ++ source[t ..] where t is
\* deleteOffset if it is present and strictly greater than insertionOffset
\* and insertionOffset otherwise: the source from t on is kept unchanged and
\* nothing of source[insertionOffset .. t) is in the tail of the output.
C14_TailResumesAfterDeletion ==
  Spliced =>
    /\ result = beforeBase \o insertText \o Slice(src, ResumeAt, Len(src))
    /\ Len(result) = Len(beforeBase) + Len(insertText) + Len(src) - ResumeAt

\* a splice that removed a range of the source holding a token
C14_Witness ==
  /\ Spliced
  /\ ~IsReplaceAll(patt)
  /\ found.deleteOffset # Null
  /\ found.deleteOffset > found.insertionOffset
  /\ \E k \in 1..Len(srcTokens) :
       /\ srcTokens[k].startIndex >= found.insertionOffset
       /\ srcTokens[k].startIndex < found.deleteOffset
  /\ found.deleteOffset < Len(src)

\* ------------------------------- the closing-brace test of the wildcard loop

\* the wildcard loop is about to test candidate Top.sj
InWildcardLoop == pc = "loop" /\ Top.sj <= Len(srcTokens)

\* the wildcards of the pattern that have a non-meta token after them, by
\* their index counted from 0
WildcardsWithTarget ==
  {w \in 0..(Len(patt) - 1) :
     PatTok(w).type = "wildcard" /\ NextIdx(w + 1) < Len(patt)}

\* C15: for every pattern produced by lexMatch and every source token
\* sequence, the extra test that skips a candidate when the next literal is }
\* and the candidate's depth differs from that literal's depth never decides:
\* whenever it would skip, the comparison with the wildcard's depth or the
\* comparison of the texts skips already, because a } that follows a wildcard
\* has the wildcard's depth.  The search without the test therefore takes the
\* same steps and ends with the same offsets or the same failure.
C15_BraceTestNeverDecides ==
  /\ \A w \in WildcardsWithTarget :
       PatTok(NextIdx(w + 1)).text = <<"}">>
         => PatTok(NextIdx(w + 1)).nestingLevel = PatTok(w).nestingLevel
  /\ InWildcardLoop =>
       (BraceSkips(Top.sj, TargetOfTop)
          => (LevelSkips(Top.sj, PatTok(Top.pi)) \/ TextSkips(Top.sj, TargetOfTop)))

\* the closing-brace test would skip a candidate } of another depth, which
\* the comparison with the wildcard's depth skips as well
C15_Witness ==
  /\ InWildcardLoop
  /\ BraceSkips(Top.sj, TargetOfTop)
  /\ ~TextSkips(Top.sj, TargetOfTop)
  /\ LevelSkips(Top.sj, PatTok(Top.pi))

\* ------------------------------------------------ termination of the search

\* the pieces a match fragment of SpecSearch is made of
SearchChunks ==
  { Marker("wildcard"), Marker("inserter"), Marker("folder"),
    <<"a">>, <<"/", "*", "*", "/">> }

\* the source tokens of SpecSearch: text and nesting level
SearchSrcKinds ==
  { [text |-> <<"a">>, blocks |-> 0], [text |-> <<"a">>, blocks |-> 1],
    [text |-> <<"b">>, blocks |-> 0] }

InitSearch ==
  /\ \E chunks \in SeqsUpTo(SearchChunks, MaxSearchChunks) :
       /\ match = Flatten(chunks)
       /\ patt = lexMatch(Flatten(chunks))
  /\ \E kinds \in SeqsUpTo(SearchSrcKinds, MaxSearchTokens) :
       /\ src = JoinBlank(kinds)
       /\ tree = LeavesOf(kinds)
       /\ srcTokens = getLeafTokens(LeavesOf(kinds))
  /\ pc = "find"
  /\ patch = <<>>
  /\ isInline = TRUE
  /\ insertionOffset = Null
  /\ deleteOffset = Null
  /\ stack = <<>>
  /\ ret = Null
  /\ found = Pending
  /\ beforeBase = <<>>
  /\ insertText = <<>>
  /\ result = <<>>
  /\ written = <<>>
  /\ md = Extracted(match, patch)
  /\ events = <<>>

\* a call of recurse, once running, takes its next step: JavaScript runs the
\* synchronous search to its end
SpecSearch == InitSearch /\ [][Find]_vars /\ WF_vars(Find)

\* findInsertionOffset has returned or thrown
FindEnded == found.status # "pending"

\* no more calls of recurse are active than the pattern has tokens, plus one,
\* and every call stands further in the pattern than its caller
DepthBounded ==
  /\ Len(stack) <= Len(patt) + 1
  /\ \A k \in 1..(Len(stack) - 1) : stack[k + 1].pi > stack[k].pi

\* a wildcard loop started at its call's cursor and has tested at most every
\* position from there to the end of the source tokens, the end included
LoopBounded ==
  \A k \in 1..Len(stack) :
    InLoop(stack[k]) =>
      /\ stack[k].si <= stack[k].sj
      /\ stack[k].sj <= Len(srcTokens) + 1

\* a wildcard loop moves to the next candidate or stays where it is
LoopStepsByOne ==
  \A k \in 1..Min(Len(stack), Len(stack')) :
    (InLoop(stack[k]) /\ InLoop(stack'[k]))
      => (stack'[k].sj = stack[k].sj \/ stack'[k].sj = stack[k].sj + 1)

\* C16: for every source token sequence and every pattern findInsertionOffset
\* terminates, returning offsets or throwing: every call of recurse stands
\* further in the pattern than its caller, so at most pattern length plus one
\* calls are active, and each wildcard loop runs at most the number of source
\* tokens plus one iterations.
C16_SearchTerminates ==
  /\ <>FindEnded
  /\ [](DepthBounded /\ LoopBounded)
  /\ [][LoopStepsByOne]_vars

\* a wildcard loop that started at the first source token has tested every
\* position and ran out, below the deepest chain of calls but one
C16_Witness ==
  /\ pc = "loop"
  /\ Top.si = 0
  /\ Top.sj = Len(srcTokens) + 1
  /\ Len(srcTokens) >= 2

====
